---- MODULE Spec2Model ----
(***************************************************************************)
(* Model of the outboxen transactional-outbox processor:                   *)
(*   pkg/outbox/outbox.go   Outbox.StartProcessing / PumpOutbox /           *)
(*                          processBatch / WakeProcessor / Publish          *)
(*   pkg/fake/storage.go    EntryStorage (ClaimEntries, GetClaimedEntries,  *)
(*                          DeleteEntries, Publish)                         *)
(*   pkg/outbox (context)   settingsFromContext / WithNamespace             *)
(* Time is the Clock's reading in whole ticks.  Entry.CreatedAt is left out *)
(* (the source documents it as serving no functional purpose).             *)
(***************************************************************************)
EXTENDS Integers, Sequences, FiniteSets, Bags, TLC

(* ---------------------------- bounds ---------------------------------- *)
\* number of entries ever written to the store (uuid.NewString is fresh)
MaxEntries == 3
\* last reading of the Clock
MaxTime == 2
\* number of store / publisher calls that may fail while pumping by hand
MaxFailures == 2
\* largest Config.BatchSize tried
MaxBatchSize == 3
\* number of entries ever written while the loop of StartProcessing runs
LoopEntries == 2
\* number of calls that may fail while the loop of StartProcessing runs
LoopFailures == 1

\* number of times DefaultAndValidate is applied to one Config
MaxApply == 2
\* contexts made in a run of ContextSpec
MaxContexts == 3

(* ------------------------- configuration ------------------------------ *)
\* Config.ClaimDuration, in ticks
ClaimDuration == 2
\* Config.ProcessInterval, in ticks
ProcessInterval == 2

\* Config.ProcessorID of the processor instances
Procs == {"p1", "p2"}
\* Entry.ProcessorID of an unclaimed entry (Go's empty string)
NoProc == ""
\* Entry.ProcessingDeadline of an unclaimed entry (Go's nil)
NoDeadline == -1
\* Entry.Namespace values
Namespaces == {"", "ns1"}
\* Message values handed to the write path
M1 == [key |-> "k1", payload |-> "x1"]
M2 == [key |-> "k2", payload |-> "x2"]
Messages == {M1, M2}
\* transaction handles a caller passes to Outbox.Publish
Txns == {"tx1", "tx2"}

\* DefaultProcessInterval, DefaultClaimDuration (seconds), DefaultBatchSize
DefaultProcessInterval == 10
DefaultClaimDuration == 2
DefaultBatchSize == 20
\* values of the Config fields a caller supplies: interfaces are nil or
\* set, durations are in seconds (0 is Go's zero value, "not supplied")
NilValue == "nil"
ClockValues == {NilValue, "fakeClock"}
LoggerValues == {NilValue, "testLogger"}
StorageValues == {NilValue, "storage"}
PublisherValues == {NilValue, "publisher"}
ProcessorIDs == {"", "p1"}
Durations == {-1, 0, 5}
BatchSizes == {-1, 0, 1, 5}
\* what DefaultAndValidate fills in for a nil Clock and a nil Logger
RealClock == "realClock"
DiscardLogger == "discardLogger"
\* every Config a caller can hand to New / DefaultAndValidate
Configs ==
    [clock : ClockValues, storage : StorageValues, publisher : PublisherValues,
     processInterval : Durations, claimDuration : Durations,
     processorID : ProcessorIDs, batchSize : BatchSizes, logger : LoggerValues]

\* what a context.Context holds under settingsKey{}: nothing (Value returns
\* nil), or a *ContextSettings with its Namespace
NoSettings == [set |-> FALSE, namespace |-> ""]
Settings(ns) == [set |-> TRUE, namespace |-> ns]
\* contexts a caller hands to StartProcessing / PumpOutbox: a plain one
\* (context.Background and what is derived from it) and one made by
\* contextWithSettings
CallerContexts == {NoSettings, Settings("")}

VARIABLES
    entries,      \* EntryStorage.entries: sequence of Entry records
    now,          \* Clock.Now()
    nextID,       \* next fresh Entry.ID (uuid.NewString)
    lastWrite,    \* the latest Outbox.Publish call: arguments, store calls, result
    failures,     \* number of failed store / publisher calls so far
    batchSize,    \* Config.BatchSize
    pc,           \* per processor: position in StartProcessing / PumpOutbox
    batch,        \* per processor: processBatch's `entries`
    pending,      \* per processor: namespaces of `namespaced` not yet published
    more,         \* per processor: processBatch's `more`
    err,          \* per processor: error of the current call
    wakeSignal,   \* per processor: tokens buffered in Outbox.wakeSignal
    cancelled,    \* per processor: ctx.Done() is closed
    ctx,          \* per processor: what ctx holds under settingsKey{}
    wakeAt,       \* per processor: when Clock.After(ProcessInterval) fires
    result,       \* per processor: value returned by StartProcessing
    trigger,      \* per processor: select case that started the latest pass
    written,      \* the Messages handed to the write path, by Entry.ID
    published,    \* bag of Messages the Publisher accepted
    delivered,    \* IDs of entries whose message a Publish call reported delivered
    acked,        \* per processor: IDs reported delivered in the current processBatch
    failed,       \* per processor: IDs reported failed in the current processBatch
    batches,      \* per processor: processBatch calls in the current PumpOutbox
    claimedCount, \* per processor: entries owned right after the pass's ClaimEntries
    lastDelete,   \* per processor: IDs passed to DeleteEntries by the current processBatch
    deleteCalls,  \* per processor: DeleteEntries calls made by the current processBatch
    cfg,          \* the Config value a caller holds
    cfgErr,       \* what the latest cfg.DefaultAndValidate() returned
    applied,      \* number of cfg.DefaultAndValidate() calls so far
    made,          \* what New(cfg) returned, once called
    deadline,     \* per processor: PumpOutbox's `deadline`
    tries,        \* per processor: calls of op made by the current RetryNotify
    elapsed,      \* per processor: the backoff's MaxElapsedTime since Reset is over
    settings,     \* the ContextSettings values contexts point to, by address
    contexts,     \* the contexts made so far: what Value(settingsKey{}) points to
    created,      \* per context: the namespace it was made with
    nsCall        \* the latest call of the context functions and its outcome

vars == <<entries, now, nextID, lastWrite, failures, batchSize, pc, batch, pending, more, err,
          wakeSignal, cancelled, ctx, wakeAt, result, trigger, written, published, delivered,
          acked, failed, batches, claimedCount, lastDelete, deleteCalls, cfg, cfgErr,
          applied, made, settings, contexts, created, nsCall, deadline, tries, elapsed>>

ctxVars == <<settings, contexts, created, nsCall>>

\* the state of backoff.RetryNotify and of its ExponentialBackOff
retryVars == <<tries, elapsed>>

(* ----------------------------- errors --------------------------------- *)
Nil == [type |-> "nil"]
ClaimErr == [type |-> "claim"]
ListErr == [type |-> "list"]
\* error of the store's write path
WriteErr == [type |-> "write"]
\* error of processBatch: pub is the Publish error (Nil, OtherErr or a
\* PublishError), del tells whether DeleteEntries failed (multierr.Combine)
OtherErr == [type |-> "other"]
PublishError(errors) == [type |-> "publish", errors |-> errors]
BatchErr(pub, del) == [type |-> "batch", pub |-> pub, del |-> del]

\* PublishError.ErrorCount: errors[i] = TRUE stands for a non-nil position
RECURSIVE ErrorCount(_)
ErrorCount(errors) ==
    IF errors = <<>> THEN 0
    ELSE (IF Head(errors) THEN 1 ELSE 0) + ErrorCount(Tail(errors))

(* ------------------------------ Config -------------------------------- *)
ErrNoStorage == [type |-> "no storage provided"]
ErrNoPublisher == [type |-> "no publisher provided"]
ErrNoProcessorID == [type |-> "no processor ID provided"]
\* New wraps the error of DefaultAndValidate: "invalid config: %w"
InvalidConfig(e) == [type |-> "invalid config", cause |-> e]

\* mutant of DefaultAndValidate: only a BatchSize of 0 is replaced and a
\* missing ProcessorID is let through
DefaultAndValidateLax(c) ==
    IF c.storage = NilValue THEN [err |-> ErrNoStorage, cfg |-> c]
    ELSE IF c.publisher = NilValue THEN [err |-> ErrNoPublisher, cfg |-> c]
    ELSE [err |-> Nil,
          cfg |-> [c EXCEPT
              !.clock = IF @ = NilValue THEN RealClock ELSE @,
              !.logger = IF @ = NilValue THEN DiscardLogger ELSE @,
              !.processInterval = IF @ = 0 THEN DefaultProcessInterval ELSE @,
              !.claimDuration = IF @ = 0 THEN DefaultClaimDuration ELSE @,
              !.batchSize = IF @ = 0 THEN DefaultBatchSize ELSE @]]

\* mutant of DefaultAndValidate: the default ClaimDuration is added to a
\* ClaimDuration below the default interval instead of replacing an unset one
DefaultAndValidateAdding(c) ==
    IF c.storage = NilValue THEN [err |-> ErrNoStorage, cfg |-> c]
    ELSE IF c.publisher = NilValue THEN [err |-> ErrNoPublisher, cfg |-> c]
    ELSE IF c.processorID = "" THEN [err |-> ErrNoProcessorID, cfg |-> c]
    ELSE [err |-> Nil,
          cfg |-> [c EXCEPT
              !.clock = IF @ = NilValue THEN RealClock ELSE @,
              !.logger = IF @ = NilValue THEN DiscardLogger ELSE @,
              !.processInterval = IF @ = 0 THEN DefaultProcessInterval ELSE @,
              !.claimDuration = IF @ < DefaultProcessInterval
                                THEN @ + DefaultClaimDuration ELSE @,
              !.batchSize = IF @ < 1 THEN DefaultBatchSize ELSE @]]

\* Config.DefaultAndValidate on the Config c: the error returned and c as
\* the call leaves it (the receiver is a pointer)
DefaultAndValidate(c) ==
    IF c.storage = NilValue THEN [err |-> ErrNoStorage, cfg |-> c]
    ELSE IF c.publisher = NilValue THEN [err |-> ErrNoPublisher, cfg |-> c]
    ELSE IF c.processorID = "" THEN [err |-> ErrNoProcessorID, cfg |-> c]
    ELSE [err |-> Nil,
          cfg |-> [c EXCEPT
              !.clock = IF @ = NilValue THEN RealClock ELSE @,
              !.logger = IF @ = NilValue THEN DiscardLogger ELSE @,
              !.processInterval = IF @ = 0 THEN DefaultProcessInterval ELSE @,
              !.claimDuration = IF @ = 0 THEN DefaultClaimDuration ELSE @,
              !.batchSize = IF @ < 1 THEN DefaultBatchSize ELSE @]]

\* no *Outbox (Go's nil)
NoOutbox == [config |-> NilValue]

\* New(c): the Config is passed by value; the Outbox holds the defaulted
\* copy and an empty wake channel of capacity 1
New(c) ==
    LET r == DefaultAndValidate(c)
    IN  IF r.err # Nil THEN [err |-> InvalidConfig(r.err), outbox |-> NoOutbox]
        ELSE [err |-> Nil, outbox |-> [config |-> r.cfg, wakeSignal |-> 0]]

\* New has not been called
NotMade == [err |-> Nil, outbox |-> [config |-> "none"]]

(* ------------------------- context settings --------------------------- *)
\* settingsFromContext: ctx.Value(settingsKey{}).(*ContextSettings) is a
\* type assertion in its one-result form, which panics when Value returns
\* nil, that is on every context that holds no settings
settingsFromContext(c) ==
    IF c.set THEN [panic |-> FALSE, settings |-> c]
    ELSE [panic |-> TRUE, settings |-> NoSettings]

\* WithNamespace -> augmentContextSettings: settingsFromContext, Clone, set
\* the Namespace, contextWithSettings; a panic of settingsFromContext goes
\* through (the `c == nil` test is not reached)
WithNamespace(c, ns) ==
    IF settingsFromContext(c).panic THEN [panic |-> TRUE, ctx |-> c]
    ELSE [panic |-> FALSE, ctx |-> Settings(ns)]

\* NamespaceFromContext: settingsFromContext, then "" for nil settings, else
\* the Namespace; a panic of settingsFromContext goes through
NamespaceFromContext(c) ==
    IF settingsFromContext(c).panic THEN [panic |-> TRUE, ns |-> ""]
    ELSE [panic |-> FALSE, ns |-> settingsFromContext(c).settings.namespace]

\* no context function has been called
NoCall == [op |-> "none", arg |-> 0, ns |-> "", panic |-> FALSE, result |-> ""]

(* ------------------------- pkg/fake/storage.go ------------------------ *)
\* the Entry appended by EntryStorage.Publish for one message
NewEntry(id, msg, ns) ==
    [id |-> id, key |-> msg.key, payload |-> msg.payload, ns |-> ns,
     owner |-> NoProc, deadline |-> NoDeadline]

\* mutant of Leased: a lease that ends within one ClaimDuration counts as over
LeasedWithMargin(entry, t) ==
    entry.owner # NoProc /\ entry.deadline # NoDeadline /\ t + ClaimDuration < entry.deadline

\* EntryStorage.ClaimEntries: the loop's `continue` condition
Leased(entry, t) ==
    entry.owner # NoProc /\ entry.deadline # NoDeadline /\ t < entry.deadline

\* mutant of ClaimEntries: the lease is not looked at, every entry is taken
ClaimEntriesIgnoringLease(es, processorID, claimDeadline, t) ==
    [i \in DOMAIN es |->
        [es[i] EXCEPT !.owner = processorID, !.deadline = claimDeadline]]

\* mutant of ClaimEntries: the processor's own unexpired leases are renewed
ClaimEntriesRenewing(es, processorID, claimDeadline, t) ==
    [i \in DOMAIN es |->
        IF Leased(es[i], t) /\ es[i].owner # processorID THEN es[i]
        ELSE [es[i] EXCEPT !.owner = processorID, !.deadline = claimDeadline]]

\* EntryStorage.ClaimEntries at store time t
ClaimEntries(es, processorID, claimDeadline, t) ==
    [i \in DOMAIN es |->
        IF Leased(es[i], t) THEN es[i]
        ELSE [es[i] EXCEPT !.owner = processorID, !.deadline = claimDeadline]]

\* the first n elements of a sequence
Take(s, n) == SubSeq(s, 1, IF n < Len(s) THEN n ELSE Len(s))

\* mutant of GetClaimedEntries: the ProcessorID is not compared
GetClaimedEntriesOfAnyone(es, processorID, limit) ==
    Take(es, IF limit < 1 THEN 1 ELSE limit)

\* EntryStorage.GetClaimedEntries: the loop appends before it tests the
\* length, so a limit below 1 still yields one entry
GetClaimedEntries(es, processorID, limit) ==
    Take(SelectSeq(es, LAMBDA e : e.owner = processorID),
         IF limit < 1 THEN 1 ELSE limit)

\* the set of elements of a sequence
Range(s) == {s[i] : i \in DOMAIN s}

\* mutant of DeleteEntries: nothing is removed
DeleteEntriesNone(es, entryIDs) == es

\* EntryStorage.DeleteEntries
DeleteEntries(es, entryIDs) ==
    SelectSeq(es, LAMBDA e : e.id \notin Range(entryIDs))

\* EntryStorage.CountEntries
CountEntries == Len(entries)

\* IDs of the entries in the store
StoreIDs(es) == {es[i].id : i \in DOMAIN es}

(* ------------------------- processBatch helpers ----------------------- *)
\* mutant of More: a full batch is not taken as a sign of more work
MoreStrict(n, size) == n > size

\* more = len(entries) >= BatchSize
More(n, size) == n >= size

\* entryIDs: the fetched entries' IDs, in fetch order
EntryIDs(b) == [i \in DOMAIN b |-> b[i].id]

\* mutant of ToMessage: the payload is filled from the key
ToMessageKeyOnly(entry) == [key |-> entry.key, payload |-> entry.key]

\* Message{Key: entry.Key, Payload: entry.Payload}
ToMessage(entry) == [key |-> entry.key, payload |-> entry.payload]

\* namespaced[ns]: the fetched entries of one namespace, in fetch order
Group(b, ns) == SelectSeq(b, LAMBDA e : e.ns = ns)

\* the keys of `namespaced`
BatchNamespaces(b) == {b[i].ns : i \in DOMAIN b}

\* positions of a PublishError that hold nil
NilPositions(errors) ==
    SelectSeq([i \in DOMAIN errors |-> i], LAMBDA i : ~errors[i])

\* mutant of Deletable: the Publish error is not looked at
DeletableIgnoringError(entryIDs, e) == entryIDs

\* deletableIDs of the deferred reconciliation, for Publish error e
Deletable(entryIDs, e) ==
    IF e = Nil THEN entryIDs
    ELSE IF e.type = "publish"
         THEN [k \in DOMAIN NilPositions(e.errors) |->
                  entryIDs[NilPositions(e.errors)[k]]]
         ELSE <<>>

\* what a Publish call of n messages may return: nil, a PublishError with
\* one position per message and at least one failure, or another error
PublishOutcomes(n) ==
    {Nil, OtherErr} \cup
    {PublishError(errors) : errors \in
        {f \in [1..n -> BOOLEAN] : \E i \in 1..n : f[i]}}

\* positions of a Publish call of n messages reported delivered
DeliveredPositions(outcome, n) ==
    IF outcome = Nil THEN 1..n
    ELSE IF outcome.type = "publish"
         THEN {i \in 1..n : ~outcome.errors[i]}
         ELSE {}

\* positions of a Publish call of n messages reported failed
FailedPositions(outcome, n) ==
    IF outcome = Nil THEN {} ELSE (1..n) \ DeliveredPositions(outcome, n)

\* bag of the elements of a sequence
RECURSIVE BagOfSeq(_)
BagOfSeq(s) ==
    IF s = <<>> THEN EmptyBag ELSE SetToBag({Head(s)}) (+) BagOfSeq(Tail(s))

\* mutant of Combine: a DeleteEntries error replaces the Publish error
CombineMasking(pub, delFailed) ==
    IF delFailed THEN BatchErr(Nil, TRUE)
    ELSE IF pub = Nil THEN Nil ELSE BatchErr(pub, FALSE)

\* the error processBatch returns: the Publish error combined with the
\* DeleteEntries error
Combine(pub, delFailed) ==
    IF pub = Nil /\ ~delFailed THEN Nil ELSE BatchErr(pub, delFailed)

\* Outbox.Publish has not been called
NoWrite == [txn |-> "none", msgs |-> <<>>, calls |-> <<>>, storeErr |-> Nil, ret |-> Nil]

(* ------------------------------ Init ---------------------------------- *)
\* the Config of the running processors: valid, with the BatchSize in use
RunningConfig(size) ==
    [clock |-> "fakeClock", storage |-> "storage", publisher |-> "publisher",
     processInterval |-> ProcessInterval, claimDuration |-> ClaimDuration,
     processorID |-> "p1", batchSize |-> size, logger |-> "testLogger"]

\* the state after construction, apart from the Config
ProcInit ==
    /\ entries = <<>>
    /\ lastWrite = NoWrite
    /\ now = 0
    /\ nextID = 1
    /\ failures = 0
    /\ batchSize \in 1..MaxBatchSize
    /\ pc = [p \in Procs |-> "off"]
    /\ batch = [p \in Procs |-> <<>>]
    /\ pending = [p \in Procs |-> {}]
    /\ more = [p \in Procs |-> FALSE]
    /\ err = [p \in Procs |-> Nil]
    /\ wakeSignal = [p \in Procs |-> 0]
    /\ cancelled = [p \in Procs |-> FALSE]
    /\ ctx = [p \in Procs |-> NoSettings]
    /\ tries = [p \in Procs |-> 0]
    /\ elapsed = [p \in Procs |-> FALSE]
    /\ wakeAt = [p \in Procs |-> 0]
    /\ result = [p \in Procs |-> "none"]
    /\ trigger = [p \in Procs |-> "none"]
    /\ written = <<>>
    /\ published = EmptyBag
    /\ delivered = {}
    /\ acked = [p \in Procs |-> {}]
    /\ failed = [p \in Procs |-> {}]
    /\ batches = [p \in Procs |-> 0]
    /\ claimedCount = [p \in Procs |-> 0]
    /\ lastDelete = [p \in Procs |-> <<>>]
    /\ deleteCalls = [p \in Procs |-> 0]
    /\ deadline = [p \in Procs |-> NoDeadline]
    /\ cfgErr = Nil
    /\ applied = 0
    /\ made = NotMade
    /\ settings = <<>>
    /\ contexts = <<>>
    /\ created = <<>>
    /\ nsCall = NoCall

Init ==
    /\ ProcInit
    /\ cfg = RunningConfig(batchSize)

\* a caller holds any Config, not yet validated
ConfigInit ==
    /\ ProcInit
    /\ batchSize = 1
    /\ cfg \in Configs

cfgVars == <<cfg, cfgErr, applied, made>>

storeVars == <<entries, nextID, written, lastWrite>>
passVars == <<batch, pending, more, err, acked, failed, batches, claimedCount, lastDelete,
             deleteCalls, deadline>>
loopVars == <<wakeSignal, cancelled, wakeAt, result, trigger>>
pubVars == <<published, delivered>>

(* ------------------- writers: EntryStorage.Publish -------------------- *)
\* mutant of OutboxPublish: the store's error is logged and not returned
OutboxPublishSwallow(txn, msgs, e) ==
    [txn |-> txn, msgs |-> msgs,
     calls |-> <<[txn |-> txn, msgs |-> msgs]>>,
     storeErr |-> e, ret |-> Nil]

\* Outbox.Publish(ctx, txn, messages...) when Storage.Publish returns e: the
\* arguments, the calls made to the store's write path, and the result
OutboxPublish(txn, msgs, e) ==
    [txn |-> txn, msgs |-> msgs,
     calls |-> <<[txn |-> txn, msgs |-> msgs]>>,
     storeErr |-> e, ret |-> e]

\* Outbox.Publish -> Storage.Publish returning e.  With e nil one entry is
\* appended per message and a failing call leaves the store as it was.  The
\* fake store leaves Entry.Namespace empty (ns = ""); ns is the namespace a
\* store that records one gives the entry, as processBatch reads it back
WriteTxn(txn, msgs, ns, cap, e) ==
    /\ nextID + Len(msgs) - 1 <= cap
    /\ lastWrite' = OutboxPublish(txn, msgs, e)
    /\ IF e = Nil
       THEN /\ entries' = entries \o
                   [i \in DOMAIN msgs |-> NewEntry(nextID + i - 1, msgs[i], ns)]
            /\ nextID' = nextID + Len(msgs)
            /\ written' = written \o msgs
       ELSE UNCHANGED <<entries, nextID, written>>
    /\ UNCHANGED <<cfgVars, ctxVars, retryVars, ctx, now, failures, batchSize, pc, passVars, loopVars, pubVars>>

\* a write in transaction "tx1" that the store accepts
Write(msgs, ns, cap) == WriteTxn("tx1", msgs, ns, cap, Nil)

(* ------------------------------ Clock --------------------------------- *)
\* the Clock advances one tick; a processor blocked in StartProcessing's
\* select whose Clock.After(ProcessInterval) timer fires resumes with a pass
\* (one that has entered the select and not yet looked at its cases keeps
\* its timer and finds it fired or not in its next step)
\* backoff.RetryNotify(op, bo, notify) is entered: b.Reset() restarts the
\* backoff's elapsed time, then op is called for the first time
RetryEnter(p) ==
    /\ tries' = [tries EXCEPT ![p] = 1]
    /\ elapsed' = [elapsed EXCEPT ![p] = FALSE]

\* backoff.RetryNotify returns: bo and its state are dropped
RetryLeave(p) ==
    /\ tries' = [tries EXCEPT ![p] = 0]
    /\ elapsed' = [elapsed EXCEPT ![p] = FALSE]

Tick ==
    /\ now < MaxTime
    /\ now' = now + 1
    /\ pc' = [p \in Procs |->
                IF pc[p] = "parked" /\ wakeAt[p] <= now + 1
                THEN "claim" ELSE pc[p]]
    /\ wakeAt' = [p \in Procs |-> IF pc'[p] \in {"poll", "parked"} THEN wakeAt[p] ELSE 0]
    /\ trigger' = [p \in Procs |-> IF pc'[p] # pc[p] THEN "interval" ELSE trigger[p]]
    /\ tries' = [p \in Procs |-> IF pc'[p] # pc[p] THEN 1 ELSE tries[p]]
    /\ elapsed' = [p \in Procs |-> IF pc'[p] # pc[p] THEN FALSE ELSE elapsed[p]]
    /\ UNCHANGED <<cfgVars, ctxVars, ctx, storeVars, failures, batchSize, passVars, wakeSignal,
                   cancelled, result, pubVars>>

(* ----------------------------- PumpOutbox ----------------------------- *)
\* the frame of a PumpOutbox call that has returned is gone
ResetPass(p) ==
    /\ batch' = [batch EXCEPT ![p] = <<>>]
    /\ pending' = [pending EXCEPT ![p] = {}]
    /\ more' = [more EXCEPT ![p] = FALSE]
    /\ err' = [err EXCEPT ![p] = Nil]
    /\ acked' = [acked EXCEPT ![p] = {}]
    /\ failed' = [failed EXCEPT ![p] = {}]
    /\ batches' = [batches EXCEPT ![p] = 0]
    /\ claimedCount' = [claimedCount EXCEPT ![p] = 0]
    /\ lastDelete' = [lastDelete EXCEPT ![p] = <<>>]
    /\ deleteCalls' = [deleteCalls EXCEPT ![p] = 0]
    /\ deadline' = [deadline EXCEPT ![p] = NoDeadline]

\* a caller invokes PumpOutbox(c) directly (not through StartProcessing)
PumpStart(p) ==
    /\ pc[p] \in {"off", "pumpOk", "pumpErr"}
    /\ pc' = [pc EXCEPT ![p] = "claim"]
    /\ \E c \in CallerContexts : ctx' = [ctx EXCEPT ![p] = c]
    /\ ResetPass(p)
    /\ UNCHANGED <<cfgVars, ctxVars, retryVars, storeVars, now, failures, batchSize, loopVars, pubVars>>

\* PumpOutbox: deadline := o.config.Clock.Now().Add(o.config.ClaimDuration),
\* the Clock read by the processor before it calls the store
ClaimDeadline(p) ==
    /\ pc[p] = "claim"
    /\ deadline' = [deadline EXCEPT ![p] = now + ClaimDuration]
    /\ pc' = [pc EXCEPT ![p] = "claimCall"]
    /\ UNCHANGED <<cfgVars, ctxVars, retryVars, ctx, storeVars, now, failures, batchSize, batch, pending,
                   more, err, acked, failed, batches, claimedCount, lastDelete, deleteCalls,
                   loopVars, pubVars>>

\* Storage.ClaimEntries(ctx, ProcessorID, deadline): the store takes its lock
\* and reads the Clock itself, which may have advanced since the deadline
\* was computed
ClaimOk(p) ==
    /\ pc[p] = "claimCall"
    /\ entries' = ClaimEntries(entries, p, deadline[p], now)
    /\ claimedCount' = [claimedCount EXCEPT ![p] =
           Len(SelectSeq(entries', LAMBDA e : e.owner = p))]
    /\ batches' = [batches EXCEPT ![p] = 0]
    /\ err' = [err EXCEPT ![p] = Nil]
    /\ pc' = [pc EXCEPT ![p] = "list"]
    /\ UNCHANGED <<cfgVars, ctxVars, retryVars, deadline, ctx, nextID, written, lastWrite, now, failures, batchSize, batch, pending, more, acked, failed,
                   lastDelete, deleteCalls, loopVars, pubVars>>

\* Storage.ClaimEntries fails: PumpOutbox returns "error claiming entries"
ClaimFail(p, budget) ==
    /\ pc[p] = "claimCall"
    /\ failures < budget
    /\ failures' = failures + 1
    /\ batches' = [batches EXCEPT ![p] = 0]
    /\ err' = [err EXCEPT ![p] = ClaimErr]
    /\ pc' = [pc EXCEPT ![p] = "pumpErr"]
    /\ UNCHANGED <<cfgVars, ctxVars, retryVars, deadline, ctx, storeVars, now, batchSize, batch, pending, more, acked, failed,
                   claimedCount, lastDelete, deleteCalls, loopVars, pubVars>>

(* ---------------------------- processBatch ---------------------------- *)
\* processBatch up to the Publish loop: GetClaimedEntries, more, entryIDs,
\* namespaced.  With nothing fetched no Publish call is made.
ListOk(p) ==
    /\ pc[p] = "list"
    /\ batch' = [batch EXCEPT ![p] = GetClaimedEntries(entries, p, batchSize)]
    /\ more' = [more EXCEPT ![p] = More(Len(batch'[p]), batchSize)]
    /\ pending' = [pending EXCEPT ![p] = BatchNamespaces(batch'[p])]
    /\ acked' = [acked EXCEPT ![p] = {}]
    /\ failed' = [failed EXCEPT ![p] = {}]
    /\ lastDelete' = [lastDelete EXCEPT ![p] = <<>>]
    /\ deleteCalls' = [deleteCalls EXCEPT ![p] = 0]
    /\ err' = [err EXCEPT ![p] = Nil]
    /\ batches' = [batches EXCEPT ![p] = @ + 1]
    /\ pc' = [pc EXCEPT ![p] = IF pending'[p] = {} THEN "delete" ELSE "publish"]
    /\ UNCHANGED <<cfgVars, ctxVars, retryVars, deadline, ctx, storeVars, now, failures, batchSize, claimedCount, loopVars, pubVars>>

\* GetClaimedEntries fails: processBatch returns before the reconciliation
\* is deferred, so neither Publish nor DeleteEntries is called
ListFail(p, budget) ==
    /\ pc[p] = "list"
    /\ failures < budget
    /\ failures' = failures + 1
    /\ batch' = [batch EXCEPT ![p] = <<>>]
    /\ more' = [more EXCEPT ![p] = FALSE]
    /\ pending' = [pending EXCEPT ![p] = {}]
    /\ acked' = [acked EXCEPT ![p] = {}]
    /\ failed' = [failed EXCEPT ![p] = {}]
    /\ lastDelete' = [lastDelete EXCEPT ![p] = <<>>]
    /\ deleteCalls' = [deleteCalls EXCEPT ![p] = 0]
    /\ err' = [err EXCEPT ![p] = ListErr]
    /\ batches' = [batches EXCEPT ![p] = @ + 1]
    /\ pc' = [pc EXCEPT ![p] = "pumpErr"]
    /\ UNCHANGED <<cfgVars, ctxVars, retryVars, deadline, ctx, storeVars, now, batchSize, claimedCount, loopVars, pubVars>>

\* one iteration of `for namespace, messages := range namespaced` (Go visits
\* the map's keys in an unspecified order): Publisher.Publish returns outcome
PublishGroup(p, ns, outcome) ==
    LET group == Group(batch[p], ns)
        ok == DeliveredPositions(outcome, Len(group))
        okSeq == SelectSeq([i \in DOMAIN group |-> i], LAMBDA i : i \in ok)
    IN  /\ published' = published (+)
               BagOfSeq([k \in DOMAIN okSeq |-> ToMessage(group[okSeq[k]])])
        /\ delivered' = delivered \cup {group[i].id : i \in ok}
        /\ acked' = [acked EXCEPT ![p] = @ \cup {group[i].id : i \in ok}]
        /\ failed' = [failed EXCEPT ![p] =
               @ \cup {group[i].id : i \in FailedPositions(outcome, Len(group))}]
        /\ IF outcome = Nil
           THEN /\ pending' = [pending EXCEPT ![p] = @ \ {ns}]
                /\ pc' = [pc EXCEPT ![p] =
                       IF pending'[p] = {} THEN "delete" ELSE "publish"]
                /\ UNCHANGED <<err, failures>>
           ELSE /\ pending' = [pending EXCEPT ![p] = {}]
                /\ err' = [err EXCEPT ![p] = outcome]
                /\ failures' = failures + 1
                /\ pc' = [pc EXCEPT ![p] = "delete"]

Publish(p, budget) ==
    /\ pc[p] = "publish"
    /\ \E ns \in pending[p] :
         /\ ~WithNamespace(ctx[p], ns).panic
         /\ \E outcome \in PublishOutcomes(Len(Group(batch[p], ns))) :
               /\ outcome # Nil => failures < budget
               /\ PublishGroup(p, ns, outcome)
    /\ UNCHANGED <<cfgVars, ctxVars, retryVars, deadline, ctx, storeVars, now, batchSize, batch, more, batches, claimedCount,
                   lastDelete, deleteCalls, loopVars>>

\* publishCtx := WithNamespace(ctx, namespace) panics: Publish is not called
\* and processBatch unwinds, which runs the deferred reconciliation with
\* the named result err as it is then (nil in the first iteration)
PublishPanic(p) ==
    /\ pc[p] = "publish"
    /\ \E ns \in pending[p] : WithNamespace(ctx[p], ns).panic
    /\ pending' = [pending EXCEPT ![p] = {}]
    /\ pc' = [pc EXCEPT ![p] = "unwind"]
    /\ UNCHANGED <<cfgVars, ctxVars, retryVars, deadline, ctx, storeVars, now, failures, batchSize, batch, more, err, acked,
                   failed, batches, claimedCount, lastDelete, deleteCalls, loopVars,
                   pubVars>>

\* mutant of AfterDefer: a full batch is followed by another batch whatever
\* error processBatch returned
AfterDeferIgnoringError(at, e, m) ==
    IF at = "unwind" THEN "panicked"
    ELSE IF m THEN "list" ELSE IF e # Nil THEN "pumpErr" ELSE "pumpOk"

\* where the processor is once the deferred reconciliation has run: while
\* unwinding the panic goes on through PumpOutbox (and RetryNotify and
\* StartProcessing, none of which recovers) and ends the goroutine
AfterDefer(at, e, m) ==
    IF at = "unwind" THEN "panicked"
    ELSE IF e # Nil THEN "pumpErr" ELSE IF m THEN "list" ELSE "pumpOk"

\* the deferred reconciliation: DeleteEntries(deletableIDs...) succeeds
DeleteOk(p) ==
    /\ pc[p] \in {"delete", "unwind"}
    /\ lastDelete' = [lastDelete EXCEPT ![p] = Deletable(EntryIDs(batch[p]), err[p])]
    /\ deleteCalls' = [deleteCalls EXCEPT ![p] = @ + 1]
    /\ entries' = DeleteEntries(entries, lastDelete'[p])
    /\ err' = [err EXCEPT ![p] = Combine(err[p], FALSE)]
    /\ pc' = [pc EXCEPT ![p] = AfterDefer(pc[p], err'[p], more[p])]
    /\ UNCHANGED <<cfgVars, ctxVars, retryVars, deadline, ctx, nextID, written, lastWrite, now, failures, batchSize, batch, pending, more, acked, failed,
                   batches, claimedCount, loopVars, pubVars>>

\* the deferred reconciliation: DeleteEntries fails and removes nothing
DeleteFail(p, budget) ==
    /\ pc[p] \in {"delete", "unwind"}
    /\ failures < budget
    /\ failures' = failures + 1
    /\ lastDelete' = [lastDelete EXCEPT ![p] = Deletable(EntryIDs(batch[p]), err[p])]
    /\ deleteCalls' = [deleteCalls EXCEPT ![p] = @ + 1]
    /\ err' = [err EXCEPT ![p] = Combine(err[p], TRUE)]
    /\ pc' = [pc EXCEPT ![p] = AfterDefer(pc[p], err'[p], more[p])]
    /\ UNCHANGED <<cfgVars, ctxVars, retryVars, deadline, ctx, storeVars, now, batchSize, batch, pending, more, acked, failed,
                   batches, claimedCount, loopVars, pubVars>>

(* --------------------------- StartProcessing -------------------------- *)
\* StartProcessing(c) is called: the loop reaches its select
Start(p) ==
    /\ pc[p] = "off"
    /\ pc' = [pc EXCEPT ![p] = "select"]
    /\ \E c \in CallerContexts : ctx' = [ctx EXCEPT ![p] = c]
    /\ UNCHANGED <<cfgVars, ctxVars, retryVars, storeVars, now, failures, batchSize, passVars, loopVars, pubVars>>

\* the select is entered: its operands are evaluated before any case is
\* looked at, so Clock.After(ProcessInterval) arms the timer here
SelectEnter(p) ==
    /\ pc[p] = "select"
    /\ pc' = [pc EXCEPT ![p] = "poll"]
    /\ wakeAt' = [wakeAt EXCEPT ![p] = now + ProcessInterval]
    /\ UNCHANGED <<cfgVars, ctxVars, retryVars, ctx, storeVars, now, failures, batchSize, passVars, wakeSignal,
                   cancelled, result, trigger, pubVars>>

\* select, case <-ctx.Done() found ready (Go picks among the ready cases
\* at random): return nil
SelectCtx(p) ==
    /\ pc[p] = "poll"
    /\ cancelled[p]
    /\ pc' = [pc EXCEPT ![p] = "returned"]
    /\ result' = [result EXCEPT ![p] = "nil"]
    /\ wakeAt' = [wakeAt EXCEPT ![p] = 0]
    /\ UNCHANGED <<cfgVars, ctxVars, retryVars, ctx, storeVars, now, failures, batchSize, passVars, wakeSignal,
                   cancelled, trigger, pubVars>>

\* select, case <-o.wakeSignal found ready, a token being buffered (the
\* channel is never closed, so `more` is true): on to RetryNotify(op)
SelectWake(p) ==
    /\ pc[p] = "poll"
    /\ wakeSignal[p] > 0
    /\ wakeSignal' = [wakeSignal EXCEPT ![p] = @ - 1]
    /\ pc' = [pc EXCEPT ![p] = "claim"]
    /\ trigger' = [trigger EXCEPT ![p] = "wake"]
    /\ wakeAt' = [wakeAt EXCEPT ![p] = 0]
    /\ RetryEnter(p)
    /\ UNCHANGED <<cfgVars, ctxVars, ctx, storeVars, now, failures, batchSize, passVars, cancelled,
                   result, pubVars>>

\* select, case <-Clock.After(ProcessInterval) found ready: the timer armed
\* on entering the select has fired before the cases were looked at; a
\* buffered token stays buffered and a cancelled context is not looked at
SelectInterval(p) ==
    /\ pc[p] = "poll"
    /\ wakeAt[p] <= now
    /\ pc' = [pc EXCEPT ![p] = "claim"]
    /\ trigger' = [trigger EXCEPT ![p] = "interval"]
    /\ wakeAt' = [wakeAt EXCEPT ![p] = 0]
    /\ RetryEnter(p)
    /\ UNCHANGED <<cfgVars, ctxVars, ctx, storeVars, now, failures, batchSize, passVars, wakeSignal,
                   cancelled, result, pubVars>>

\* select with no case ready: the goroutine blocks until the first case
\* that becomes ready (Cancel, WakeProcessor, Tick)
SelectPark(p) ==
    /\ pc[p] = "poll"
    /\ ~cancelled[p]
    /\ wakeSignal[p] = 0
    /\ now < wakeAt[p]
    /\ pc' = [pc EXCEPT ![p] = "parked"]
    /\ UNCHANGED <<cfgVars, ctxVars, retryVars, ctx, storeVars, now, failures, batchSize, passVars, wakeSignal,
                   cancelled, wakeAt, result, trigger, pubVars>>

\* the caller cancels the context of StartProcessing.  A goroutine blocked
\* in a select is resumed by the first case that becomes ready: blocked in
\* the loop's select it returns nil, blocked in RetryNotify's backoff
\* select it gives up ("giving up for now") and loops.
Cancel(p) ==
    /\ ~cancelled[p]
    /\ pc[p] # "returned"
    /\ cancelled' = [cancelled EXCEPT ![p] = TRUE]
    /\ pc' = [pc EXCEPT ![p] =
           IF pc[p] = "parked" THEN "returned"
           ELSE IF pc[p] = "backoff" THEN "select" ELSE pc[p]]
    /\ result' = [result EXCEPT ![p] = IF pc[p] = "parked" THEN "nil" ELSE @]
    /\ wakeAt' = [wakeAt EXCEPT ![p] = IF pc[p] = "poll" THEN @ ELSE 0]
    /\ IF pc[p] = "backoff" THEN RetryLeave(p) ELSE UNCHANGED retryVars
    /\ UNCHANGED <<cfgVars, ctxVars, ctx, storeVars, now, failures, batchSize, passVars, wakeSignal,
                   trigger, pubVars>>

\* mutant of WakeProcessor: the send does not coalesce, every call leaves a
\* token of its own (a channel with room for more than one)
WakeProcessorNoCoalesce(p) ==
    /\ IF pc[p] = "parked"
       THEN /\ pc' = [pc EXCEPT ![p] = "claim"]
            /\ wakeAt' = [wakeAt EXCEPT ![p] = 0]
            /\ trigger' = [trigger EXCEPT ![p] = "wake"]
            /\ RetryEnter(p)
            /\ UNCHANGED wakeSignal
       ELSE /\ wakeSignal' = [wakeSignal EXCEPT ![p] = IF @ < 2 THEN @ + 1 ELSE @]
            /\ UNCHANGED <<pc, wakeAt, trigger, retryVars>>
    /\ UNCHANGED <<cfgVars, ctxVars, ctx, storeVars, now, failures, batchSize, passVars, cancelled,
                   result, pubVars>>

\* Outbox.WakeProcessor: a non-blocking send on the one-slot channel.  A
\* loop blocked in its select receives the token directly; otherwise the
\* token is buffered, or dropped when one is already buffered.
WakeProcessor(p) ==
    /\ IF pc[p] = "parked"
       THEN /\ pc' = [pc EXCEPT ![p] = "claim"]
            /\ wakeAt' = [wakeAt EXCEPT ![p] = 0]
            /\ trigger' = [trigger EXCEPT ![p] = "wake"]
            /\ RetryEnter(p)
            /\ UNCHANGED wakeSignal
       ELSE /\ wakeSignal' = [wakeSignal EXCEPT ![p] = IF @ < 1 THEN @ + 1 ELSE @]
            /\ UNCHANGED <<pc, wakeAt, trigger, retryVars>>
    /\ UNCHANGED <<cfgVars, ctxVars, ctx, storeVars, now, failures, batchSize, passVars, cancelled,
                   result, pubVars>>

\* backoff.RetryNotify: op returned nil, so does RetryNotify; next iteration
RetryOk(p) ==
    /\ pc[p] = "pumpOk"
    /\ pc' = [pc EXCEPT ![p] = "select"]
    /\ ResetPass(p)
    /\ RetryLeave(p)
    /\ UNCHANGED <<cfgVars, ctxVars, ctx, storeVars, now, failures, batchSize, loopVars, pubVars>>

\* backoff.RetryNotify: op failed, NextBackOff gives a delay (the context
\* is not done and MaxElapsedTime is not over): notify, then wait for the
\* delay or the context
BackOff(p) ==
    /\ pc[p] = "pumpErr"
    /\ ~cancelled[p]
    /\ ~elapsed[p]
    /\ pc' = [pc EXCEPT ![p] = "backoff"]
    /\ ResetPass(p)
    /\ UNCHANGED <<cfgVars, ctxVars, retryVars, ctx, storeVars, now, failures, batchSize, loopVars, pubVars>>

\* backoff.RetryNotify: op failed and NextBackOff returns Stop (the context
\* is done, or the backoff's MaxElapsedTime is over): RetryNotify returns
\* the error, the loop logs "error, giving up for now" and goes on
GiveUp(p) ==
    /\ pc[p] = "pumpErr"
    /\ cancelled[p] \/ elapsed[p]
    /\ pc' = [pc EXCEPT ![p] = "select"]
    /\ ResetPass(p)
    /\ RetryLeave(p)
    /\ UNCHANGED <<cfgVars, ctxVars, ctx, storeVars, now, failures, batchSize, loopVars, pubVars>>

\* mutant of BackOffElapsed: after the delay RetryNotify returns instead of
\* calling op again, and the loop is at its select
BackOffElapsedNoRetry(p) ==
    /\ pc[p] = "backoff"
    /\ pc' = [pc EXCEPT ![p] = "select"]
    /\ RetryLeave(p)
    /\ UNCHANGED <<cfgVars, ctxVars, ctx, storeVars, now, failures, batchSize, passVars, loopVars, pubVars>>

\* backoff.RetryNotify: the delay has passed, op is called again
BackOffElapsed(p) ==
    /\ pc[p] = "backoff"
    /\ pc' = [pc EXCEPT ![p] = "claim"]
    /\ tries' = [tries EXCEPT ![p] = @ + 1]
    /\ UNCHANGED <<cfgVars, ctxVars, elapsed, ctx, storeVars, now, failures, batchSize, passVars, loopVars, pubVars>>

\* the ExponentialBackOff of a running RetryNotify: more than MaxElapsedTime
\* (DefaultMaxElapsedTime, 15 minutes) has passed on the system clock since
\* b.Reset(); NextBackOff returns Stop from now on.  The backoff reads the
\* system clock, never Config.Clock.
MaxElapsedTimePasses(p) ==
    /\ tries[p] > 0
    /\ pc[p] # "panicked"
    /\ ~elapsed[p]
    /\ elapsed' = [elapsed EXCEPT ![p] = TRUE]
    /\ UNCHANGED <<cfgVars, ctxVars, tries, ctx, storeVars, now, failures, batchSize, passVars, loopVars,
                   pc, pubVars>>

(* ------------------------- construction ------------------------------- *)
\* everything but the Config and what was made of it
procVars ==
    <<entries, now, nextID, lastWrite, failures, batchSize, pc, batch, pending, more,
      err, wakeSignal, cancelled, ctx, wakeAt, result, trigger, written, published,
      delivered, acked, failed, batches, claimedCount, lastDelete, deleteCalls, deadline,
      tries, elapsed>>

\* the caller calls cfg.DefaultAndValidate()
Validate ==
    /\ applied < MaxApply
    /\ cfg' = DefaultAndValidate(cfg).cfg
    /\ cfgErr' = DefaultAndValidate(cfg).err
    /\ applied' = applied + 1
    /\ UNCHANGED <<made, procVars, ctxVars>>

\* the caller calls New(cfg)
Construct ==
    /\ made = NotMade
    /\ made' = New(cfg)
    /\ UNCHANGED <<cfg, cfgErr, applied, procVars, ctxVars>>

(* ------------------------------ contexts ------------------------------ *)
\* what context k holds under settingsKey{}: ctx.Value(settingsKey{})
ContextValue(k) ==
    IF contexts[k].ptr = 0 THEN NoSettings
    ELSE Settings(settings[contexts[k].ptr].namespace)

\* context.Background(): a context that holds no settings
Background ==
    /\ Len(contexts) < MaxContexts
    /\ contexts' = Append(contexts, [ptr |-> 0])
    /\ created' = Append(created, "")
    /\ nsCall' = [op |-> "Background", arg |-> 0, ns |-> "", panic |-> FALSE, result |-> ""]
    /\ UNCHANGED <<settings, cfgVars, procVars>>

\* contextWithSettings(context.Background(), ContextSettings{Namespace: ns}),
\* as code inside the package can call it: &newCtx is a fresh value
ContextWithSettings(ns) ==
    /\ Len(contexts) < MaxContexts
    /\ settings' = Append(settings, [namespace |-> ns])
    /\ contexts' = Append(contexts, [ptr |-> Len(settings) + 1])
    /\ created' = Append(created, ns)
    /\ nsCall' = [op |-> "contextWithSettings", arg |-> 0, ns |-> ns,
                  panic |-> FALSE, result |-> ""]
    /\ UNCHANGED <<cfgVars, procVars>>

\* WithNamespace(contexts[k], ns): the settings read from the parent are
\* cloned, the clone gets the namespace and the child points to a fresh copy
\* of it; when settingsFromContext panics no child is made
DeriveNamespace(k, ns) ==
    /\ Len(contexts) < MaxContexts
    /\ k \in DOMAIN contexts
    /\ IF WithNamespace(ContextValue(k), ns).panic
       THEN /\ nsCall' = [op |-> "WithNamespace", arg |-> k, ns |-> ns,
                          panic |-> TRUE, result |-> ""]
            /\ UNCHANGED <<settings, contexts, created>>
       ELSE /\ settings' = Append(settings,
                    [namespace |-> WithNamespace(ContextValue(k), ns).ctx.namespace])
            /\ contexts' = Append(contexts, [ptr |-> Len(settings) + 1])
            /\ created' = Append(created, ns)
            /\ nsCall' = [op |-> "WithNamespace", arg |-> k, ns |-> ns,
                          panic |-> FALSE, result |-> ""]
    /\ UNCHANGED <<cfgVars, procVars>>

\* NamespaceFromContext(contexts[k])
ReadNamespace(k) ==
    /\ k \in DOMAIN contexts
    /\ nsCall' = [op |-> "NamespaceFromContext", arg |-> k, ns |-> "",
                  panic |-> NamespaceFromContext(ContextValue(k)).panic,
                  result |-> NamespaceFromContext(ContextValue(k)).ns]
    /\ UNCHANGED <<settings, contexts, created, cfgVars, procVars>>

(* --------------------------- specifications --------------------------- *)
\* one step of PumpOutbox by processor p; at most `budget` calls fail in a run
Pump(p, budget) ==
    \/ ClaimDeadline(p)
    \/ ClaimOk(p) \/ ClaimFail(p, budget)
    \/ ListOk(p) \/ ListFail(p, budget)
    \/ Publish(p, budget) \/ PublishPanic(p)
    \/ DeleteOk(p) \/ DeleteFail(p, budget)

\* Publish with a budget of no failure: every Publisher.Publish returns nil
PublishOk(p) == Publish(p, 0)

\* one step of PumpOutbox by processor p in which no call fails
PumpNoFail(p) ==
    \/ ClaimDeadline(p)
    \/ ClaimOk(p)
    \/ ListOk(p)
    \/ PublishOk(p) \/ PublishPanic(p)
    \/ DeleteOk(p)

\* one step of StartProcessing's loop by processor p
Loop(p) ==
    \/ Start(p)
    \/ SelectEnter(p)
    \/ SelectCtx(p) \/ SelectWake(p) \/ SelectInterval(p) \/ SelectPark(p)
    \/ RetryOk(p) \/ BackOff(p) \/ GiveUp(p) \/ BackOffElapsed(p)

\* one step of StartProcessing's loop by processor p when no pass fails and
\* the context stays live
LoopNoFail(p) ==
    \/ Start(p)
    \/ SelectEnter(p)
    \/ SelectWake(p) \/ SelectInterval(p) \/ SelectPark(p)
    \/ RetryOk(p)

\* Spec: processor p1 runs StartProcessing while writers write (default
\* namespace), callers wake it and cancel its context, the clock advances,
\* store and publisher calls may fail and the backoff may run out of time
Next ==
    \/ Write(<<M1>>, "", LoopEntries)
    \/ Tick
    \/ Loop("p1")
    \/ Pump("p1", LoopFailures)
    \/ Cancel("p1")
    \/ WakeProcessor("p1")
    \/ MaxElapsedTimePasses("p1")

Spec == Init /\ [][Next]_vars

\* BatchSpec: a caller pumps processor p1 by hand (PumpOutbox called
\* directly, again after it returned) over entries of several namespaces,
\* and store and publisher calls may fail
BatchNext ==
    \/ \E ns \in Namespaces : Write(<<M1>>, ns, MaxEntries)
    \/ PumpStart("p1")
    \/ Pump("p1", MaxFailures)

BatchSpec == Init /\ [][BatchNext]_vars

\* DrainSpec: a caller pumps processor p1 by hand, no call fails; writers
\* write messages of any content and namespace
DrainNext ==
    \/ \E m \in Messages, ns \in Namespaces : Write(<<m>>, ns, MaxEntries)
    \/ PumpStart("p1")
    \/ PumpNoFail("p1")

DrainSpec == Init /\ [][DrainNext]_vars

\* ConcSpec: callers pump every processor by hand, concurrently, against
\* the one store, while writers write and the clock advances; no call fails
ConcNext ==
    \/ Write(<<M1>>, "", MaxEntries)
    \/ Tick
    \/ \E p \in Procs : PumpStart(p)
    \/ \E p \in Procs : PumpNoFail(p)

ConcSpec == Init /\ [][ConcNext]_vars

\* ClaimSpec: ConcSpec in which store and publisher calls may fail, so that a
\* processor comes back to ClaimEntries while it still holds entries
ClaimNext ==
    \/ Write(<<M1>>, "", MaxEntries)
    \/ Tick
    \/ \E p \in Procs : PumpStart(p)
    \/ \E p \in Procs : Pump(p, LoopFailures)

ClaimSpec == Init /\ [][ClaimNext]_vars

\* FairSpec: Spec in which the goroutine of p1 keeps running (every call it
\* makes returns) and a select whose ctx.Done() case is ready again and
\* again eventually takes it (Go chooses among ready cases at random)
FairSpec ==
    /\ Spec
    /\ WF_vars(Loop("p1"))
    /\ WF_vars(Pump("p1", LoopFailures))
    /\ SF_vars(SelectCtx("p1"))

\* RetrySpec: Spec in which a retried pass may fail again (MaxFailures
\* failing calls), the goroutine of p1 keeps running and every call it
\* makes returns
RetryNext ==
    \/ Write(<<M1>>, "", LoopEntries)
    \/ Tick
    \/ Loop("p1")
    \/ Pump("p1", MaxFailures)
    \/ Cancel("p1")
    \/ WakeProcessor("p1")
    \/ MaxElapsedTimePasses("p1")

RetrySpec ==
    /\ Init
    /\ [][RetryNext]_vars
    /\ WF_vars(Loop("p1"))
    /\ WF_vars(Pump("p1", MaxFailures))

\* PublishSpec: callers hand one or two messages to Outbox.Publish in either
\* transaction, the store accepting or refusing them, while processor p1
\* runs StartProcessing, is woken, and the clock advances
PublishNext ==
    \/ \E txn \in Txns, msgs \in {<<M1>>, <<M2, M1>>}, e \in {Nil, WriteErr} :
          WriteTxn(txn, msgs, "", LoopEntries, e)
    \/ Tick
    \/ LoopNoFail("p1")
    \/ PumpNoFail("p1")
    \/ WakeProcessor("p1")

PublishSpec == Init /\ [][PublishNext]_vars

\* ConfigSpec: a caller holds any Config, validates it (again and again)
\* and constructs an Outbox from it
ConfigNext ==
    \/ Validate
    \/ Construct

ConfigSpec == ConfigInit /\ [][ConfigNext]_vars

\* TermSpec: processor p1 pumps, calls failing or not, and every call it makes
\* returns, while writers write, the clock advances and processor p2 pumps
TermNext ==
    \/ Write(<<M1>>, "", LoopEntries)
    \/ Tick
    \/ \E p \in Procs : PumpStart(p)
    \/ Pump("p1", LoopFailures)
    \/ PumpNoFail("p2")

TermSpec ==
    /\ Init
    /\ [][TermNext]_vars
    /\ WF_vars(Pump("p1", LoopFailures))

\* ContextSpec: callers make contexts, derive children with WithNamespace
\* and read namespaces back
ContextInit ==
    /\ ProcInit
    /\ batchSize = 1
    /\ cfg = RunningConfig(1)

ContextNext ==
    \/ Background
    \/ \E ns \in Namespaces : ContextWithSettings(ns)
    \/ \E k \in 1..MaxContexts, ns \in Namespaces : DeriveNamespace(k, ns)
    \/ \E k \in 1..MaxContexts : ReadNamespace(k)

ContextSpec == ContextInit /\ [][ContextNext]_vars

(* ------------------------------ claims -------------------------------- *)
\* IDs of the entries written so far
WrittenIDs == 1..(nextID - 1)

\* the entry with the given ID is in the store and owned by processor p
OwnedInStore(id, p) ==
    \E i \in DOMAIN entries : entries[i].id = id /\ entries[i].owner = p

\* C1: at-least-once safety: an entry that is no longer in the store had its
\* message reported delivered by some Publish call
C1_DeletedOnlyAfterPublished ==
    \A id \in WrittenIDs : id \notin StoreIDs(entries) => id \in delivered

\* IDs a processor holds in a fetched batch that it may still publish
Held(p) == IF pc[p] \in {"publish", "delete", "unwind"} THEN Range(EntryIDs(batch[p])) ELSE {}

\* C2: at-least-once liveness, as what a finite run refutes: every entry
\* written so far is still in the store (to be retried), or is held by a
\* processor in a fetched batch, or was reported delivered; an entry that
\* is none of these can never be published any more
C2_NoEntryLost ==
    \A id \in WrittenIDs :
        \/ id \in StoreIDs(entries)
        \/ id \in delivered
        \/ \E p \in Procs : id \in Held(p)

\* the lease on the entry is unexpired at Clock reading t
Unexpired(entry, t) == entry.owner # NoProc /\ t < entry.deadline

\* C3: P1 lease exclusivity: no step (in particular no ClaimEntries of
\* another processor) changes the owner of an entry whose lease is unexpired
C3_LeaseExclusive ==
    [][\A i \in DOMAIN entries : \A j \in DOMAIN entries' :
          (Unexpired(entries[i], now) /\ entries'[j].id = entries[i].id)
              => entries'[j].owner = entries[i].owner]_vars

\* C3 witness: both processors are in a pass and each holds an unexpired
\* lease, after a lease of p1 expired and was taken over by p2
C3_Witness ==
    /\ pc["p1"] \in {"list", "publish", "delete"}
    /\ pc["p2"] \in {"list", "publish", "delete"}
    /\ \E i, j \in DOMAIN entries :
          /\ entries[i].owner = "p1" /\ Unexpired(entries[i], now)
          /\ entries[j].owner = "p2" /\ Unexpired(entries[j], now)
          /\ entries[j].deadline > entries[i].deadline

\* C4: P2: once processBatch has returned an error, every fetched entry
\* whose publish attempt failed (its message was in a Publish call that
\* returned another error, or at a non-nil position of a PublishError) is
\* still in the store and still returned by GetClaimedEntries for the
\* processor
C4_FailedEntriesRemain ==
    \A p \in Procs :
        (pc[p] = "pumpErr" /\ err[p].type = "batch") =>
            failed[p] \subseteq StoreIDs(GetClaimedEntries(entries, p, Len(entries)))

\* C5: P3: a batch of N entries, a PublishError with K non-nil positions and
\* a successful delete: N - K entries of the batch are gone from the store,
\* K remain and are still claimed by the processor
C5_PartialFailurePrecision ==
    \A p \in Procs :
        (pc[p] = "pumpErr" /\ err[p].type = "batch"
            /\ err[p].pub.type = "publish" /\ ~err[p].del) =>
            LET ids == Range(EntryIDs(batch[p]))
                N == Len(batch[p])
                K == ErrorCount(err[p].pub.errors)
            IN  /\ Len(lastDelete[p]) = N - K
                /\ Cardinality(ids \ StoreIDs(entries)) = N - K
                /\ Cardinality({id \in ids : OwnedInStore(id, p)}) = K

\* C6: after a Publish error that is no PublishError, processBatch has
\* passed no ID to DeleteEntries, every fetched entry is still in the store
\* and still claimed, and the pass returns an error
C6_OtherErrorDeletesNothing ==
    \A p \in Procs :
        (err[p].type = "batch" /\ err[p].pub = OtherErr) =>
            /\ pc[p] = "pumpErr"
            /\ lastDelete[p] = <<>>
            /\ \A i \in DOMAIN batch[p] : OwnedInStore(batch[p][i].id, p)

\* C6 witness: a batch of two namespaces, the first published, the second
\* failing with another error
C6_Witness ==
    /\ pc["p1"] = "pumpErr"
    /\ err["p1"].type = "batch" /\ err["p1"].pub = OtherErr
    /\ Len(batch["p1"]) >= 2
    /\ acked["p1"] # {}

\* ceil(n / size)
Ceil(n, size) == (n + size - 1) \div size

\* C7 as stated: a successful pass issues ceil(claimed_count / BatchSize)
\* processBatch calls
C7_CeilBatches ==
    pc["p1"] = "pumpOk" => batches["p1"] = Ceil(claimedCount["p1"], batchSize)

\* C7 amended: a successful pass issues floor(claimed_count / BatchSize) + 1
\* processBatch calls, the last returning more = false
C7_FloorPlusOneBatches ==
    pc["p1"] = "pumpOk" =>
        /\ batches["p1"] = (claimedCount["p1"] \div batchSize) + 1
        /\ ~more["p1"]

\* C7 witness: a successful pass over a claimed count that is a positive
\* multiple of BatchSize, with BatchSize above 1
C7_Witness ==
    /\ pc["p1"] = "pumpOk"
    /\ batchSize > 1
    /\ claimedCount["p1"] > 0
    /\ claimedCount["p1"] % batchSize = 0

\* the messages of the entries in the store
StoreMessages == BagOfSeq([i \in DOMAIN entries |-> ToMessage(entries[i])])

\* C8: when PumpOutbox has returned nil the store holds no entry owned by
\* the processor (what it holds was written after the claim and is
\* unclaimed), and the Publisher has received exactly one message, with the
\* entry's Key and Payload, for every other entry ever written
C8_PumpPostCondition ==
    pc["p1"] = "pumpOk" =>
        /\ \A i \in DOMAIN entries : entries[i].owner = NoProc
        /\ published (+) StoreMessages = BagOfSeq(written)

\* C8 witness: PumpOutbox returned nil after draining three entries with
\* different contents in more than one batch, the store is empty
C8_Witness ==
    /\ pc["p1"] = "pumpOk"
    /\ entries = <<>>
    /\ Len(written) = 3
    /\ Cardinality(Range(written)) = 2
    /\ batches["p1"] >= 2

\* C9: the loop of StartProcessing ends only by returning, with its context
\* cancelled and with the value nil
C9_EndsOnlyOnCancel ==
    \A p \in Procs :
        pc[p] \in {"returned", "panicked"} =>
            (pc[p] = "returned" /\ cancelled[p] /\ result[p] = "nil")

\* C10, as what a finite run refutes: a loop that has ended by a panic
\* never returns, so once the context is cancelled while StartProcessing
\* runs, no step ends the loop by a panic
C10_CancelledLoopReturns ==
    [][(cancelled["p1"] /\ pc["p1"] \notin {"off", "returned", "panicked"})
          => pc'["p1"] # "panicked"]_vars

\* C11, as stated: a failed pass is retried until a pass succeeds or the
\* context is cancelled, so RetryNotify returns to the loop (which is then at
\* its select) only after a pass that succeeded or with the context
\* cancelled
C11_RetriedUntilCancelled ==
    [][(tries["p1"] > 0 /\ pc'["p1"] = "select") =>
          (pc["p1"] = "pumpOk" \/ cancelled'["p1"])]_vars

\* C11, amended: a pass error never ends the loop.  While the context is
\* live and the backoff's MaxElapsedTime is not over, a pass that fails is
\* retried: RetryNotify waits and calls PumpOutbox again, which starts with
\* the claim, and does so again when the retried pass fails.  Retrying ends
\* only by a pass that succeeds, by cancellation or by MaxElapsedTime being
\* over; RetryNotify then returns, nothing is returned from the loop, and
\* the loop comes to its three-way wait, which it always resolves (a pass,
\* the blocked wait, or the return on cancellation)
C11_FailedPassRetried ==
    /\ [][(pc["p1"] = "pumpErr" /\ pc'["p1"] # "pumpErr") =>
              /\ result'["p1"] = "none"
              /\ IF ~cancelled["p1"] /\ ~elapsed["p1"]
                 THEN pc'["p1"] = "backoff" /\ tries'["p1"] = tries["p1"]
                 ELSE pc'["p1"] = "select" /\ tries'["p1"] = 0]_vars
    /\ [][(pc["p1"] = "backoff" /\ pc'["p1"] # "backoff") =>
              \/ /\ pc'["p1"] = "claim"
                 /\ tries'["p1"] = tries["p1"] + 1
                 /\ ~cancelled'["p1"]
              \/ /\ pc'["p1"] = "select"
                 /\ ~cancelled["p1"] /\ cancelled'["p1"]
                 /\ result'["p1"] = "none"]_vars
    /\ [][(pc["p1"] = "claim" /\ tries["p1"] > 1 /\ pc'["p1"] # "claim") =>
              pc'["p1"] = "claimCall"]_vars
    /\ [][(tries["p1"] > 0 /\ pc'["p1"] = "select") =>
              (pc["p1"] = "pumpOk" \/ cancelled'["p1"] \/ elapsed["p1"])]_vars
    /\ \A n \in 1..MaxFailures :
          (pc["p1"] = "pumpErr" /\ tries["p1"] = n) ~>
              \/ pc["p1"] = "claim" /\ tries["p1"] = n + 1
              \/ cancelled["p1"]
              \/ elapsed["p1"]
    /\ (pc["p1"] = "pumpErr" /\ (cancelled["p1"] \/ elapsed["p1"])) ~>
              (pc["p1"] = "poll" /\ tries["p1"] = 0)
    /\ (pc["p1"] = "poll") ~> (pc["p1"] \in {"claim", "parked", "returned"})

\* C11 witness: with the context live and MaxElapsedTime not over, a pass
\* failed, was retried, the retried pass failed as well and PumpOutbox is
\* called a third time, entries still being in the store
C11_Witness ==
    /\ pc["p1"] = "claim"
    /\ tries["p1"] = 3
    /\ failures = 2
    /\ ~cancelled["p1"]
    /\ ~elapsed["p1"]
    /\ entries # <<>>

\* C12, as what a finite run refutes: a pass the elapsed interval started
\* publishes the entries written meanwhile, so whatever such a pass has
\* passed to DeleteEntries was reported delivered by a Publish call
C12_IntervalPassPublishes ==
    \A p \in Procs :
        trigger[p] = "interval" => Range(lastDelete[p]) \subseteq delivered

\* StartProcessing has been called and has neither returned nor panicked
Running(p) == pc[p] \notin {"off", "returned", "panicked"}

\* C13, as what a finite run refutes: a token buffered while a pass is in
\* progress comes from a WakeProcessor call made while StartProcessing runs,
\* and a loop that has ended by a panic starts no pass any more; so, the
\* context being live, no step ends the loop by a panic with a token pending
C13_PendingWakeGetsPass ==
    [][(wakeSignal["p1"] > 0 /\ ~cancelled["p1"] /\ Running("p1"))
          => pc'["p1"] # "panicked"]_vars

\* C14: P5 wake coalescing: the wake channel never holds more than one
\* token, and a WakeProcessor call can be made (it neither blocks nor
\* fails) in every state: loop not started, idle, in a pass, returned
C14_WakeCoalesced ==
    /\ \A p \in Procs : wakeSignal[p] \in {0, 1}
    /\ ENABLED WakeProcessor("p1")

\* C14 witness: a token is pending while the loop is busy in a pass, so
\* that further WakeProcessor calls find the channel full
C14_Witness ==
    /\ wakeSignal["p1"] = 1
    /\ pc["p1"] = "publish"

\* the deferred reconciliation of the current processBatch has run
Reconciled(p) ==
    \/ pc[p] \in {"pumpOk", "panicked"}
    \/ pc[p] = "pumpErr" /\ err[p].type = "batch"
    \/ pc[p] = "list" /\ batches[p] > 0

C16_ErrorAbortsPass ==
    /\ [](\A p \in Procs :
            /\ (pc[p] = "pumpErr" /\ err[p] = ClaimErr) =>
                  (batches[p] = 0 /\ batch[p] = <<>> /\ deleteCalls[p] = 0)
            /\ (pc[p] = "pumpErr" /\ err[p] = ListErr) =>
                  (batch[p] = <<>> /\ acked[p] = {} /\ failed[p] = {}
                      /\ deleteCalls[p] = 0)
            /\ pc[p] = "pumpErr" => err[p] # Nil
            /\ pc[p] \in {"list", "pumpOk"} => err[p] = Nil)
    /\ [][\A p \in Procs :
            /\ (pc[p] \in {"claimCall", "list"} /\ err'[p] \in {ClaimErr, ListErr}) =>
                  (pc'[p] = "pumpErr" /\ entries' = entries
                      /\ published' = published)
            /\ (pc[p] = "delete" /\ pc'[p] # "delete" /\ err'[p] # Nil) =>
                  pc'[p] = "pumpErr"
            /\ (pc[p] = "delete" /\ pc'[p] # "delete" /\ err'[p].type = "batch"
                    /\ err'[p].del) => entries' = entries]_vars

\* C16 witness: the pass returned an error after a full batch (more was
\* true) while entries it had claimed were left unprocessed in the store
C16_Witness ==
    /\ pc["p1"] = "pumpErr"
    /\ err["p1"].type = "batch"
    /\ more["p1"]
    /\ \E i \in DOMAIN entries :
          /\ entries[i].owner = "p1"
          /\ entries[i].id \notin Range(EntryIDs(batch["p1"]))

\* Storage, Publisher or ProcessorID is missing from the Config
Missing(c) ==
    c.storage = NilValue \/ c.publisher = NilValue \/ c.processorID = ""

\* the Config c with its unset fields resolved to the defaults
Effective(c) ==
    [clock |-> IF c.clock = NilValue THEN RealClock ELSE c.clock,
     storage |-> c.storage,
     publisher |-> c.publisher,
     processInterval |-> IF c.processInterval = 0 THEN 10 ELSE c.processInterval,
     claimDuration |-> IF c.claimDuration = 0 THEN 2 ELSE c.claimDuration,
     processorID |-> c.processorID,
     batchSize |-> IF c.batchSize < 1 THEN 20 ELSE c.batchSize,
     logger |-> IF c.logger = NilValue THEN DiscardLogger ELSE c.logger]

\* C17: New and DefaultAndValidate fail exactly when Storage, Publisher or
\* ProcessorID is missing, and then New makes no Outbox and the Config is
\* left as it was; otherwise they succeed and the effective Config keeps
\* the supplied values, the unset ones being 10 s, 2 s, 20 (also for a
\* BatchSize below 1), the real clock and the discard logger
C17_ConstructionValidates ==
    /\ [](applied > 0 =>
            /\ cfgErr # Nil <=> Missing(cfg)
            /\ cfgErr = Nil => (cfg = Effective(cfg) /\ cfg.batchSize >= 1))
    /\ [][applied' = applied + 1 =>
              cfg' = (IF Missing(cfg) THEN cfg ELSE Effective(cfg))]_vars
    /\ [](made # NotMade =>
            /\ made.err # Nil <=> Missing(cfg)
            /\ made.err # Nil => made.outbox = NoOutbox
            /\ made.err = Nil =>
                  (made.outbox # NoOutbox /\ made.outbox.config = Effective(cfg)))

\* C17 witness: New succeeded on a Config that supplies a negative
\* BatchSize and a ClaimDuration and leaves Clock and ProcessInterval unset
C17_Witness ==
    /\ made # NotMade
    /\ made.err = Nil
    /\ applied = 0
    /\ cfg.batchSize < 0 /\ cfg.claimDuration = 5
    /\ cfg.clock = NilValue /\ cfg.processInterval = 0
    /\ made.outbox.config.batchSize = 20
    /\ made.outbox.config.claimDuration = 5

\* C18: P6: DefaultAndValidate is idempotent: applied to a Config it has
\* been applied to, it returns the same result (error or success) and
\* leaves every field as it is
C18_ValidateIdempotent ==
    /\ [](DefaultAndValidate(DefaultAndValidate(cfg).cfg) = DefaultAndValidate(cfg))
    /\ [][(applied > 0 /\ applied' = applied + 1) =>
              (cfg' = cfg /\ cfgErr' = cfgErr)]_vars

\* C18 witness: DefaultAndValidate was applied twice to a Config whose
\* Clock, Logger, durations and BatchSize it had to default
C18_Witness ==
    /\ applied = 2
    /\ cfgErr = Nil
    /\ cfg.clock = RealClock /\ cfg.logger = DiscardLogger
    /\ cfg.processInterval = DefaultProcessInterval
    /\ cfg.claimDuration = DefaultClaimDuration
    /\ cfg.batchSize = DefaultBatchSize

\* C19: Outbox.Publish makes exactly one call to the store's write path,
\* with the caller's transaction handle and messages, and returns what that
\* call returned; the call changes nothing but the store, where it leaves
\* the entries already there as they are and appends unclaimed ones: no
\* processor moves, nothing reaches the Publisher, no wake token is added
C19_PublishPassthrough ==
    /\ [](lastWrite # NoWrite =>
            /\ lastWrite.calls = <<[txn |-> lastWrite.txn, msgs |-> lastWrite.msgs]>>
            /\ lastWrite.ret = lastWrite.storeErr)
    /\ [][(lastWrite' # lastWrite \/ Len(entries') > Len(entries)) =>
              /\ UNCHANGED <<pc, wakeSignal, wakeAt, trigger, published, delivered,
                             batch, now>>
              /\ SubSeq(entries', 1, Len(entries)) = entries
              /\ \A i \in (Len(entries) + 1)..Len(entries') :
                    entries'[i].owner = NoProc
              /\ lastWrite'.ret # Nil => entries' = entries
              /\ lastWrite'.ret = Nil =>
                    [i \in 1..(Len(entries') - Len(entries)) |->
                        ToMessage(entries'[Len(entries) + i])] = lastWrite'.msgs]_vars

\* C19 witness: two messages were handed to Outbox.Publish in transaction
\* "tx2" while the loop was blocked in its select; they are in the store,
\* unclaimed, and the loop is still blocked
C19_Witness ==
    /\ lastWrite.txn = "tx2" /\ Len(lastWrite.msgs) = 2 /\ lastWrite.ret = Nil
    /\ pc["p1"] = "parked"
    /\ wakeSignal["p1"] = 0
    /\ Len(entries) = 2
    /\ \A i \in DOMAIN entries : entries[i].owner = NoProc
    /\ published = EmptyBag

\* the entry may be claimed at store time t: its ProcessorID is empty, or
\* its ProcessingDeadline is unset, or its ProcessingDeadline is not after t
Eligible(entry, t) ==
    \/ entry.owner = NoProc
    \/ entry.deadline = NoDeadline
    \/ entry.deadline <= t

\* C20: a ClaimEntries call of processor p with the deadline PumpOutbox
\* computed, made at store time now, gives owner p and that deadline to
\* exactly the eligible entries and leaves every other entry, and every
\* other field, as it is; none is added or removed
C20_ClaimEligibilityFrame ==
    [][\A p \in Procs :
          (pc[p] = "claimCall" /\ pc'[p] = "list") =>
              /\ Len(entries') = Len(entries)
              /\ \A i \in DOMAIN entries :
                    entries'[i] =
                        IF Eligible(entries[i], now)
                        THEN [entries[i] EXCEPT !.owner = p,
                                                !.deadline = deadline[p]]
                        ELSE entries[i]]_vars

\* C20 witness: right after a claim by p2 the store holds an entry p2 has
\* just been given, an entry p1 keeps under its unexpired lease, and an
\* entry p2 keeps under an older lease of its own that was not renewed
C20_Witness ==
    /\ pc["p2"] = "list"
    /\ batches["p2"] = 0
    /\ \E i, j, k \in DOMAIN entries :
          /\ entries[i].owner = "p2" /\ entries[i].deadline = deadline["p2"]
          /\ entries[j].owner = "p1" /\ Unexpired(entries[j], now)
          /\ entries[k].owner = "p2" /\ Unexpired(entries[k], now)
          /\ entries[k].deadline < deadline["p2"]

\* the store after processor p has claimed at the present store time, its
\* deadline computed at that same Clock reading
ClaimedOnce(es, p) == ClaimEntries(es, p, now + ClaimDuration, now)

\* C21: a claim re-issued by processor p leaves the entries p holds under an
\* unexpired lease with the same owner and deadline and changes only entries
\* that were unclaimed or expired; and, the clock unchanged, a second claim
\* by p leaves the store as the first one left it: for two claims made at
\* one Clock reading from any store, and after every claim of a run that
\* granted a lease still unexpired at the store's Clock reading, for a
\* further claim with any deadline after that reading
C21_ClaimIdempotent ==
    /\ [](\A p \in Procs :
            ClaimedOnce(ClaimedOnce(entries, p), p) = ClaimedOnce(entries, p))
    /\ [][\A p \in Procs :
            (pc[p] = "claimCall" /\ pc'[p] = "list") =>
                \A i \in DOMAIN entries :
                    /\ (entries[i].owner = p /\ Unexpired(entries[i], now))
                           => entries'[i] = entries[i]
                    /\ entries'[i] # entries[i]
                           => (entries[i].owner = NoProc \/ ~Unexpired(entries[i], now))]_vars
    /\ [][\A p \in Procs :
            (pc[p] = "claimCall" /\ pc'[p] = "list" /\ now < deadline[p]) =>
                \A d \in (now + 1)..(now + ClaimDuration) :
                    ClaimEntries(entries', p, d, now) = entries']_vars

\* C21 witness: p1 has just claimed again after a failed pass: it holds an
\* entry under the older lease, not renewed, next to one it has just taken
C21_Witness ==
    /\ pc["p1"] = "list"
    /\ batches["p1"] = 0
    /\ failures > 0
    /\ \E i, k \in DOMAIN entries :
          /\ entries[i].owner = "p1" /\ entries[i].deadline = deadline["p1"]
          /\ entries[k].owner = "p1" /\ Unexpired(entries[k], now)
          /\ entries[k].deadline < deadline["p1"]

\* C22: when a Publish call of a pass returned a PublishError, every ID the
\* reconciliation passed to DeleteEntries is the ID of an entry whose own
\* message a Publish call of that pass reported delivered
C22_PositionsMatchEntries ==
    \A p \in Procs :
        (pc[p] = "pumpErr" /\ err[p].type = "batch" /\ err[p].pub.type = "publish") =>
            Range(lastDelete[p]) \subseteq acked[p]

\* C23: no call of the context functions fails (panics), whatever the
\* context holds; the namespace read from the child WithNamespace(ctx, ns)
\* returns is ns; the namespace read from a context without settings is "";
\* and every context still holds the namespace it was made with
C23_NamespaceSnapshot ==
    /\ ~nsCall.panic
    /\ nsCall.op = "WithNamespace" =>
           NamespaceFromContext(ContextValue(Len(contexts))).ns = nsCall.ns
    /\ (nsCall.op = "NamespaceFromContext" /\ contexts[nsCall.arg].ptr = 0) =>
           nsCall.result = ""
    /\ \A k \in DOMAIN contexts :
           contexts[k].ptr # 0 => settings[contexts[k].ptr].namespace = created[k]

\* the store records processor p as the owner of entry id, lease unexpired
LeaseHeld(id, p) ==
    \E j \in DOMAIN entries :
        entries[j].id = id /\ entries[j].owner = p /\ Unexpired(entries[j], now)

\* C24 as stated: whenever a Publish call of processor p delivers the
\* message of an entry, the store records p as the owner of that entry with
\* an unexpired ProcessingDeadline at that moment
C24_PublishUnderLease ==
    [][\A p \in Procs :
          \A id \in acked'[p] \ acked[p] : pc[p] = "publish" => LeaseHeld(id, p)]_vars

\* C24 amended: every entry of a batch a processor publishes was recorded by
\* the store as owned by that processor, with a deadline, when the batch was
\* fetched (the fetched copy says so); the lease is not looked at again
C24_OwnedWhenFetched ==
    \A p \in Procs :
        pc[p] \in {"publish", "delete"} =>
            \A i \in DOMAIN batch[p] :
                batch[p][i].owner = p /\ batch[p][i].deadline # NoDeadline

\* C24 witness: p1 has published the message of an entry it fetched as its
\* own while the store records p2 as its owner under an unexpired lease
C24_Witness ==
    /\ pc["p1"] = "delete"
    /\ \E i \in DOMAIN batch["p1"] :
          /\ batch["p1"][i].owner = "p1"
          /\ batch["p1"][i].id \in acked["p1"]
          /\ LeaseHeld(batch["p1"][i].id, "p2")

\* number of entries the store records as owned by processor p
Owned(p) == Len(SelectSeq(entries, LAMBDA e : e.owner = p))

\* C25: a PumpOutbox call ends. After its claim no step but its own claim
\* gives the processor an entry; before each fetch the entries it owns are
\* at most the claimed count less BatchSize for every batch done, so the
\* batches of a pass are at most floor(claimed count / BatchSize) + 1; and a
\* call that has started comes to an end (it returns, or a panic ends it)
C25_PumpTerminates ==
    /\ [][\A p \in Procs : pc[p] # "claimCall" => Owned(p)' <= Owned(p)]_vars
    /\ [](\A p \in Procs :
            /\ pc[p] = "list" =>
                   Owned(p) + batches[p] * batchSize <= claimedCount[p]
            /\ batches[p] <= (claimedCount[p] \div batchSize) + 1)
    /\ (pc["p1"] = "claim") ~> (pc["p1"] \in {"pumpOk", "pumpErr", "panicked"})

\* C25 witness: a pass of p1 has returned after two batches or more while
\* an entry written since its claim is claimed by p2, which is in a pass
C25_Witness ==
    /\ pc["p1"] = "pumpOk"
    /\ batches["p1"] >= 2
    /\ claimedCount["p1"] >= batchSize
    /\ pc["p2"] \in {"list", "publish", "delete"}
    /\ \E j \in DOMAIN entries : entries[j].owner = "p2"

====
